---- MODULE Spec2Model ----
(***************************************************************************)
(* The S-52 style factory (createStyle), the SY symbol-placement           *)
(* interpreter and the style assembler (build) of the chart style          *)
(* compiler.                                                               *)
(*                                                                         *)
(* Text that the code takes apart or puts together (mode, sprite) is a     *)
(* sequence of one-character strings; names that the code only uses as     *)
(* keys (symbol names, attribute codes, field names) are strings.  An      *)
(* optional argument is << >> when omitted and <<v>> when given.           *)
(***************************************************************************)
EXTENDS Integers, Sequences, FiniteSets, TLC

\* The style compiler: the registry, the rule table, the console and the
\* record of the calls made.
VARIABLES symbols, ruleTable, console, calls

\* The invocations of createStyle in progress.
VARIABLES compiles

\* RouteDrawControl: its fields, the route sources and layers on the map,
\* the GPX files still to load, and where a running handler stands.
VARIABLES drawing, waypoints, waypointNames, markers, routeName, savedRoutes,
          activeRouteIndex, mapSources, mapLayers, gpxFiles, pc, syncIt,
          uncaught

routeVars ==
  <<drawing, waypoints, waypointNames, markers, routeName, savedRoutes,
    activeRouteIndex, mapSources, mapLayers, gpxFiles, pc, syncIt,
    uncaught>>

compilerVars == <<symbols, ruleTable, console, calls>>

vars == <<symbols, ruleTable, console, calls, compiles, routeVars>>

(***************************************************************************)
(* Bounds                                                                  *)
(***************************************************************************)
\* number of calls (SY, build, createStyle) of one behaviour
MaxCalls == 2
\* number of rules of a rule table drawn by InitBuild
MaxRules == 3
\* number of invocations of createStyle in progress at once
MaxCompiles == 2
\* number of saved routes
MaxRoutes == 2
\* number of waypoints of the route editor
MaxWaypoints == 3

(***************************************************************************)
(* Values                                                                  *)
(***************************************************************************)
None == << >>
Some(v) == <<v>>
IsGiven(opt) == opt # << >>

DAY == <<"D", "A", "Y">>
DUSK == <<"D", "U", "S", "K">>
NIGHT == <<"N", "I", "G", "H", "T">>

Mode == {DAY, DUSK, NIGHT}

SLASH == <<"/">>

\* String.prototype.toLowerCase on the letters A..Z; every other character
\* is kept.
LowerOf ==
  [c \in {"A", "B", "C", "D", "E", "F", "G", "H", "I", "J", "K", "L", "M",
          "N", "O", "P", "Q", "R", "S", "T", "U", "V", "W", "X", "Y", "Z"} |->
     CASE c = "A" -> "a" [] c = "B" -> "b" [] c = "C" -> "c" [] c = "D" -> "d"
       [] c = "E" -> "e" [] c = "F" -> "f" [] c = "G" -> "g" [] c = "H" -> "h"
       [] c = "I" -> "i" [] c = "J" -> "j" [] c = "K" -> "k" [] c = "L" -> "l"
       [] c = "M" -> "m" [] c = "N" -> "n" [] c = "O" -> "o" [] c = "P" -> "p"
       [] c = "Q" -> "q" [] c = "R" -> "r" [] c = "S" -> "s" [] c = "T" -> "t"
       [] c = "U" -> "u" [] c = "V" -> "v" [] c = "W" -> "w" [] c = "X" -> "x"
       [] c = "Y" -> "y" [] c = "Z" -> "z"]

toLowerCase(s) ==
  [i \in 1..Len(s) |-> IF s[i] \in DOMAIN LowerOf THEN LowerOf[s[i]] ELSE s[i]]

\* Array.prototype.join
RECURSIVE join(_, _)
join(parts, sep) ==
  IF parts = << >> THEN << >>
  ELSE IF Len(parts) = 1 THEN parts[1]
  ELSE parts[1] \o sep \o join(Tail(parts), sep)

\* JavaScript truthiness of an optional string: undefined and "" are falsy.
Truthy(opt) == IsGiven(opt) /\ opt[1] # << >>

(***************************************************************************)
(* SY: the symbol-placement interpreter                                    *)
(***************************************************************************)
Number(n) == [type |-> "number", value |-> n]
Reference(name) == [type |-> "Reference", name |-> name]
Array(elems) == [type |-> "array", value |-> elems]

\* What a call ends in: a returned value or a thrown error.
Return(v) == [type |-> "return", value |-> v]
Throw(e) == [type |-> "throw", value |-> e]

\* The symbol registry the compiler imports: symbol name -> entry.
Registry ==
  ("BOYLAT12" :> [offset |-> <<0, 0>>, pivot |-> <<6, 12>>]) @@
  ("ISODGR01" :> [offset |-> <<-3, 4>>, pivot |-> <<8, 8>>])

\* symbols[name]: undefined when the registry has no such key.
Lookup(reg, name) == IF name \in DOMAIN reg THEN Some(reg[name]) ELSE None

\* rot = 0 is the default of an omitted second argument.
RotOrDefault(rot) == IF IsGiven(rot) THEN rot[1] ELSE Number(0)

\* Rotate with a literal angle brought into 0..359.
Rotate_normalised(rot) ==
  IF rot.type = "number" THEN Number(rot.value % 360)
  ELSE Array(<<"get", rot.name>>)

\* const rotate = typeof rot === "number" ? rot : ["get", rot.name]
Rotate(rot) ==
  IF rot.type = "number" THEN rot ELSE Array(<<"get", rot.name>>)

\* NotZero that holds of numbers only.
NotZero_numbersOnly(rotate) == rotate.type = "number" /\ rotate.value # 0

\* rotate !== 0
NotZero(rotate) == ~(rotate.type = "number" /\ rotate.value = 0)

\* Layout with the pivot of the entry as the icon's offset.
Layout_pivot(symbol, data, rotate) ==
  LET base == ("symbol-placement" :> "point") @@
              ("icon-allow-overlap" :> TRUE) @@
              ("icon-ignore-placement" :> TRUE) @@
              ("icon-image" :> symbol.name) @@
              ("icon-offset" :> data.pivot)
  IN  IF rotate.type = "number" /\ rotate.value = 0 THEN base
      ELSE base @@ ("icon-rotate" :> rotate)

\* The layout object of the returned fragment.
Layout(symbol, data, rotate) ==
  LET base == ("symbol-placement" :> "point") @@
              ("icon-allow-overlap" :> TRUE) @@
              ("icon-ignore-placement" :> TRUE) @@
              ("icon-image" :> symbol.name) @@
              ("icon-offset" :> data.offset)
  IN  IF NotZero(rotate) THEN base @@ ("icon-rotate" :> rotate) ELSE base

\* SY that throws when the registry lacks the symbol.
SY_throwsOnMissing(reg, symbol, rot) ==
  IF symbol.name \notin DOMAIN reg
  THEN Throw([error |-> "Missing symbol: ", name |-> symbol.name])
  ELSE Return(<<[type |-> "symbol",
                 layout |-> Layout(symbol, reg[symbol.name],
                                   Rotate(RotOrDefault(rot)))]>>)

\* SY(symbol, rot); reg is the imported registry (symbols) as the call finds
\* it.
SY(reg, symbol, rot) ==
  LET rotate == Rotate(RotOrDefault(rot))
      data == Lookup(reg, symbol.name)
  IN  IF ~IsGiven(data)
      THEN Return(<< >>)
      ELSE Return(<<[type |-> "symbol",
                     layout |-> Layout(symbol, data[1], rotate)]>>)

\* console.warn(`Missing symbol: ${symbol.name}`)
SYWarnings(reg, symbol) ==
  IF ~IsGiven(Lookup(reg, symbol.name))
  THEN <<[level |-> "warn", text |-> "Missing symbol: ", name |-> symbol.name]>>
  ELSE << >>

\* SY that enters a placeholder for a symbol the registry lacks.
SYRegistry_cached(reg, symbol) ==
  IF symbol.name \in DOMAIN reg THEN reg
  ELSE reg @@ (symbol.name :> [offset |-> <<0, 0>>, pivot |-> <<0, 0>>])

\* The registry after a call of SY that found it as reg: SY assigns nothing
\* to it.
SYRegistry(reg, symbol) == reg

SymbolNames == {"BOYLAT12", "ISODGR01", "NOSUCH01"}
Rotations == {0, 45, 360, -90}
RotArgs ==
  {None} \cup {Some(Number(n)) : n \in Rotations}
         \cup {Some(Reference(a)) : a \in {"ORIENT", "SECTR1"}}

callSY(symbol, rot) ==
  /\ Len(calls) < MaxCalls
  /\ calls' = Append(calls, [op |-> "SY", symbol |-> symbol, rot |-> rot,
                             registry |-> symbols,
                             result |-> SY(symbols, symbol, rot)])
  /\ console' = console \o SYWarnings(symbols, symbol)
  /\ symbols' = SYRegistry(symbols, symbol)
  /\ UNCHANGED <<ruleTable, compiles, routeVars>>

(***************************************************************************)
(* build: the style assembler.  For each rule of the rule table, in table  *)
(* order, the rule's instruction is interpreted; the fragments are         *)
(* collected and stable-sorted by rule priority, ascending.                *)
(***************************************************************************)
Priorities == {3, 5, 7}

\* A rule: its priority and its instruction, NAME(symbol[, rot]).
Rule(p, name, rot) ==
  [priority |-> p, instruction |-> "SY", symbol |-> name, rot |-> rot]

\* The primitives an instruction may name.
Primitives == {"SY"}

\* The rules a table is made of: the instruction of each is SY(symbol[, rot]).
Rules == {Rule(p, n, None) : p \in Priorities, n \in SymbolNames}

\* InsertAt that puts x before the elements of its own priority.
InsertAt_beforeEqual(sorted, x) ==
  Cardinality({k \in 1..Len(sorted) : sorted[k].priority < x.priority})

\* Where x goes into a list sorted by priority: behind every element whose
\* priority is not greater than that of x.
InsertAt(sorted, x) ==
  Cardinality({k \in 1..Len(sorted) : sorted[k].priority <= x.priority})

Insert(sorted, x) ==
  LET k == InsertAt(sorted, x)
  IN  SubSeq(sorted, 1, k) \o <<x>> \o SubSeq(sorted, k + 1, Len(sorted))

RECURSIVE sortByPriority(_)
sortByPriority(s) ==
  IF s = << >> THEN << >>
  ELSE Insert(sortByPriority(SubSeq(s, 1, Len(s) - 1)), s[Len(s)])

\* The fragments SY gave for rule n of the table, each with the rule it
\* came from.
Tagged(n, frags) ==
  [k \in 1..Len(frags) |->
     [priority |-> ruleTable[n].priority, rule |-> n, fragment |-> frags[k]]]

\* The compile after the first n rules of the table.
RECURSIVE collect(_)
collect(n) ==
  IF n = 0
  THEN [registry |-> symbols, collected |-> << >>, warnings |-> << >>,
        thrown |-> None]
  ELSE LET prev == collect(n - 1)
           symbol == Reference(ruleTable[n].symbol)
           r == SY(prev.registry, symbol, ruleTable[n].rot)
       IN  IF IsGiven(prev.thrown) THEN prev
           ELSE IF ruleTable[n].instruction \notin Primitives
           THEN [prev EXCEPT !.thrown =
                   Some([error |-> "ConfigurationError", rule |-> n])]
           ELSE IF r.type = "throw"
           THEN [prev EXCEPT !.thrown = Some(r.value)]
           ELSE [registry |-> SYRegistry(prev.registry, symbol),
                 collected |-> prev.collected \o Tagged(n, r.value),
                 warnings |-> prev.warnings \o SYWarnings(prev.registry, symbol),
                 thrown |-> None]

\* The fragments of a sorted list, without their tags.
Fragments(sorted) == [k \in 1..Len(sorted) |-> sorted[k].fragment]

\* build that gives no fragments in NIGHT mode.
build_modeDependent(config) ==
  LET c == collect(Len(ruleTable))
      sorted == IF config.mode = NIGHT THEN << >>
                ELSE sortByPriority(c.collected)
  IN  [completion |-> IF IsGiven(c.thrown) THEN Throw(c.thrown[1])
                      ELSE Return(Fragments(sorted)),
       sorted |-> IF IsGiven(c.thrown) THEN << >> ELSE sorted,
       warnings |-> c.warnings,
       registry |-> c.registry]

\* build(config): what it ends in, with the tagged list its layers are
\* read from, its warnings and the registry it leaves.
build(config) ==
  LET c == collect(Len(ruleTable))
      sorted == sortByPriority(c.collected)
  IN  [completion |-> IF IsGiven(c.thrown) THEN Throw(c.thrown[1])
                      ELSE Return(Fragments(sorted)),
       sorted |-> IF IsGiven(c.thrown) THEN << >> ELSE sorted,
       warnings |-> c.warnings,
       registry |-> c.registry]

\* The rule table of the compiler: equal priorities, a symbol the registry
\* lacks, literal and attribute rotations.
LookupTable ==
  <<Rule(5, "BOYLAT12", None),
    Rule(3, "ISODGR01", Some(Number(45))),
    Rule(5, "NOSUCH01", None),
    Rule(3, "BOYLAT12", Some(Reference("ORIENT"))),
    Rule(5, "ISODGR01", Some(Number(0)))>>

\* A rule table with a defect: the instruction of its second rule names no
\* primitive.
BrokenTable ==
  <<Rule(5, "BOYLAT12", None),
    [priority |-> 3, instruction |-> "XX", symbol |-> "ISODGR01", rot |-> None],
    Rule(3, "ISODGR01", Some(Number(45)))>>

\* Every rule table of at most MaxRules rules.
RuleTables == UNION {[1..n -> Rules] : n \in 0..MaxRules}

(***************************************************************************)
(* createStyle: the style factory (the default export)                     *)
(***************************************************************************)
\* { ...first, ...second }: a key of both takes the value of second.
Spread(first, second) == second @@ first

StyleOptions(source, name, mode, sprite) ==
  [source |-> source, name |-> name, mode |-> mode, sprite |-> sprite]

\* ModeOrDefault with NIGHT as the default.
ModeOrDefault_night(mode) == IF IsGiven(mode) THEN mode[1] ELSE NIGHT

\* NameOrDefault that keeps the default name whatever is given.
NameOrDefault_fixed(name) == "S52 Style"

\* name = "S52 Style", mode = "DAY": the defaults of omitted options.
NameOrDefault(name) == IF IsGiven(name) THEN name[1] ELSE "S52 Style"
ModeOrDefault(mode) == IF IsGiven(mode) THEN mode[1] ELSE DAY

\* LayerConfig with the safety and deep depths exchanged.
LayerConfig_swapped(mode) ==
  [mode |-> mode, source |-> "enc",
   shallowDepth |-> 3, safetyDepth |-> 9, deepDepth |-> 6]

\* const config: LayerConfig = { mode, source: "enc", ... }; depths in metres.
LayerConfig(mode) ==
  [mode |-> mode, source |-> "enc",
   shallowDepth |-> 3, safetyDepth |-> 6, deepDepth |-> 9]

\* SpritePath with the mode as it was passed.
SpritePath_keepCase(sprite, mode) ==
  join((IF Truthy(sprite) THEN <<sprite[1]>> ELSE << >>) \o <<mode>>, SLASH)

\* [...(sprite ? [sprite] : []), mode.toLowerCase()].join("/")
SpritePath(sprite, mode) ==
  join((IF Truthy(sprite) THEN <<sprite[1]>> ELSE << >>) \o <<toLowerCase(mode)>>,
       SLASH)

\* sources: { [config.source]: { promoteId: "LNAM", ...source } }
Sources(config, source) ==
  config.source :> Spread("promoteId" :> "LNAM", source)

\* Layers in the opposite order.
Layers_reversed(layers) ==
  [k \in 1..Len(layers) |-> layers[Len(layers) + 1 - k]]

\* The layers property of the document: the list build returned.
Layers(layers) == layers

StyleDocument(options, config, layers) ==
  [version |-> 8,
   name |-> NameOrDefault(options.name),
   sprite |-> SpritePath(options.sprite, ModeOrDefault(options.mode)),
   glyphs |-> "https://fonts.openmaptiles.org/{fontstack}/{range}.pbf",
   sources |-> Sources(config, options.source),
   layers |-> Layers(layers)]

\* The source descriptors callers pass: without a promoteId, with promoteId
\* LNAM, with a promoteId of their own.
VectorSource == ("type" :> "vector") @@ ("url" :> "pmtiles://charts")
SourceSpecifications ==
  {VectorSource,
   VectorSource @@ ("promoteId" :> "LNAM"),
   VectorSource @@ ("promoteId" :> "OBJNAM")}

\* The sprite base URLs callers pass: none, the empty string, a URL with an
\* upper-case letter and a path.
SpriteBases == {None, Some(<< >>), Some(<<"S", "/", "x">>)}

ModeOptions == {None} \cup {Some(m) : m \in Mode}

NameOptions == {None}

\* The options callers pass; a name is given with the plain source and no
\* sprite.
AllStyleOptions ==
  {StyleOptions(src, n, m, sp) :
     src \in SourceSpecifications, n \in NameOptions, m \in ModeOptions,
     sp \in SpriteBases}
  \cup {StyleOptions(VectorSource, Some("Harbour chart"), m, None) :
          m \in ModeOptions}

\* Completion that catches the error of build and returns a document
\* without layers.
Completion_swallow(options, config, built) ==
  IF built.type = "throw" THEN Return(StyleDocument(options, config, << >>))
  ELSE Return(StyleDocument(options, config, built.value))

\* What createStyle ends in when build ended in built: an error of build is
\* not caught; a returned list goes into the document.
Completion(options, config, built) ==
  IF built.type = "throw" THEN built
  ELSE Return(StyleDocument(options, config, built.value))

createStyle(options) ==
  LET config == LayerConfig(ModeOrDefault(options.mode))
      b == build(config)
  IN  /\ Len(calls) < MaxCalls
      /\ calls' = Append(calls,
           [op |-> "createStyle", options |-> options, config |-> config,
            registry |-> symbols,
            built |-> b.completion,
            result |-> Completion(options, config, b.completion)])
      /\ console' = console \o b.warnings
      /\ symbols' = b.registry
      /\ UNCHANGED <<ruleTable, compiles, routeVars>>

\* build called by itself.
callBuild(config) ==
  LET b == build(config)
  IN  /\ Len(calls) < MaxCalls
      /\ calls' = Append(calls,
           [op |-> "build", config |-> config, registry |-> symbols,
            sorted |-> b.sorted, result |-> b.completion])
      /\ console' = console \o b.warnings
      /\ symbols' = b.registry
      /\ UNCHANGED <<ruleTable, compiles, routeVars>>

(***************************************************************************)
(* The conditional procedure of soundings: the band of a depth against the *)
(* thresholds of the config.  Depths are in tenths of a metre, the         *)
(* thresholds of the config in metres.                                     *)
(***************************************************************************)
\* SoundingBand with a depth on a threshold in the shallower band.
SoundingBand_shallower(depth, config) ==
  IF depth <= 10 * config.shallowDepth THEN "shallow"
  ELSE IF depth > 10 * config.deepDepth THEN "deep"
  ELSE "safety"

\* Below the shallow threshold: shallow; at or above the deep threshold:
\* deep; otherwise the mid/safety band.
SoundingBand(depth, config) ==
  IF depth < 10 * config.shallowDepth THEN "shallow"
  ELSE IF depth >= 10 * config.deepDepth THEN "deep"
  ELSE "safety"

\* The depths of soundings: 2.0, 2.9, 3.0, 3.1, 5.0, 6.0, 7.0, 8.9, 9.0, 9.1
\* and 9.5 m.
Depths == {20, 29, 30, 31, 50, 60, 70, 89, 90, 91, 95}

\* evaluate(procedureName, attributes, config) for a sounding of the depth.
evaluate(depth, config) ==
  /\ Len(calls) < MaxCalls
  /\ calls' = Append(calls,
       [op |-> "evaluate", depth |-> depth, config |-> config,
        band |-> SoundingBand(depth, config)])
  /\ UNCHANGED <<symbols, ruleTable, console, compiles, routeVars>>

(***************************************************************************)
(* createStyle, several invocations in progress.                           *)
(*                                                                         *)
(* An invocation holds its parameters and its const bindings (config,      *)
(* layers) in its own frame; the frames are the entries of compiles.       *)
(* The statements of one invocation are taken one at a time, with the      *)
(* statements of other invocations in between.                             *)
(***************************************************************************)
IdleFrame ==
  [pc |-> "idle", options |-> None, config |-> None, built |-> None,
   result |-> None]

\* The bindings an invocation reads, were the parameters held in one place
\* for all invocations: the first invocation's while it has them.
Frame_shared(id) ==
  [compiles[id] EXCEPT
     !.options = IF compiles[1].pc # "idle" THEN compiles[1].options ELSE @,
     !.config = IF compiles[1].pc # "idle" THEN compiles[1].config ELSE @]

\* The bindings an invocation reads: those of its own call.
Frame(id) == compiles[id]

\* The options of the invocations that run side by side.
ConcurrentOptions ==
  {StyleOptions(VectorSource, None, m, sp) :
     m \in ModeOptions, sp \in {None, Some(<<"S", "/", "x">>)}}

\* The parameters are bound and config is built.
beginCompile(id, options) ==
  /\ compiles[id].pc = "idle"
  /\ compiles' = [compiles EXCEPT ![id] =
       [IdleFrame EXCEPT !.pc = "config", !.options = options,
                         !.config = LayerConfig(ModeOrDefault(options.mode))]]
  /\ UNCHANGED <<compilerVars, routeVars>>

\* const layers = build(config)
buildCompile(id) ==
  /\ compiles[id].pc = "config"
  /\ LET b == build(Frame(id).config)
     IN  /\ compiles' = [compiles EXCEPT ![id].pc = "built",
                                         ![id].built = b.completion]
         /\ console' = console \o b.warnings
         /\ symbols' = b.registry
  /\ UNCHANGED <<ruleTable, calls, routeVars>>

\* The document is put together and returned.
finishCompile(id) ==
  /\ compiles[id].pc = "built"
  /\ LET f == Frame(id)
     IN  compiles' = [compiles EXCEPT ![id].pc = "done",
                        ![id].result = Completion(f.options, f.config, f.built)]
  /\ UNCHANGED <<compilerVars, routeVars>>

(***************************************************************************)
(* RouteDrawControl: the route editor and the saved routes.                *)
(*                                                                         *)
(* Indices of routes and waypoints are those of the code (from 0); the     *)
(* k-th element of a list is list[k + 1].  A handler runs to its end       *)
(* before the next event is taken; pc names the handler whose loop over    *)
(* the editor's waypoints is running and is "idle" between events.         *)
(***************************************************************************)
\* The state a handler works on.
Here ==
  [drawing |-> drawing, waypoints |-> waypoints,
   waypointNames |-> waypointNames, markers |-> markers,
   routeName |-> routeName, savedRoutes |-> savedRoutes,
   activeRouteIndex |-> activeRouteIndex, mapSources |-> mapSources,
   mapLayers |-> mapLayers, threw |-> FALSE]

\* The state a handler leaves.
Becomes(st) ==
  /\ drawing' = st.drawing
  /\ waypoints' = st.waypoints
  /\ waypointNames' = st.waypointNames
  /\ markers' = st.markers
  /\ routeName' = st.routeName
  /\ savedRoutes' = st.savedRoutes
  /\ activeRouteIndex' = st.activeRouteIndex
  /\ mapSources' = st.mapSources
  /\ mapLayers' = st.mapLayers
  /\ uncaught' = IF st.threw THEN Some("Source already exists") ELSE None

\* Positions on the chart: [lng, lat].
Coords == {<<0, 51>>, <<1, 52>>}

\* `Route ${n}`, a name read from a GPX file, the empty name.
RouteNumber(n) == [text |-> "Route ", n |-> n]
GpxName(n) == [text |-> "gpx", n |-> n]
EmptyName == [text |-> "", n |-> 0]

\* new maplibregl.Marker(...).setLngLat(coord).addTo(map)
Marker(coord) == [lngLat |-> coord]

\* A saved route without layers on the map.
SavedRoute(name, wps, names, visible, active) ==
  [name |-> name, waypoints |-> wps, waypointNames |-> names,
   visible |-> visible, active |-> active,
   lineLayerId |-> None, pointLayerId |-> None, sourceId |-> None]

\* activeRouteIndex >= 0 && activeRouteIndex < savedRoutes.length
HasActiveRoute(st) ==
  st.activeRouteIndex >= 0 /\ st.activeRouteIndex < Len(st.savedRoutes)

\* Marking a route active without unmarking the others.
MarkActive_keepsOthers(routes, index) ==
  [i \in 1..Len(routes) |->
     [routes[i] EXCEPT !.active = @ \/ (i - 1 = index)]]

\* savedRoutes.forEach((r, i) => (r.active = i === index))
MarkActive(routes, index) ==
  [i \in 1..Len(routes) |-> [routes[i] EXCEPT !.active = (i - 1 = index)]]

\* A splice that takes the last element off, whatever the index.
RemoveAt_last(list, idx) ==
  SubSeq(list, 1, Len(list) - 1)

\* array.splice(idx, 1)
RemoveAt(list, idx) ==
  SubSeq(list, 1, idx) \o SubSeq(list, idx + 2, Len(list))

\* _removeRouteLayers that takes the layers and the source off the map and
\* keeps their ids in the route.
removeRouteLayers_keepsIds(st, index) ==
  LET route == st.savedRoutes[index + 1]
      line == IF IsGiven(route.lineLayerId)
              THEN {<<"line", route.lineLayerId[1]>>} ELSE {}
      points == IF IsGiven(route.pointLayerId)
                THEN {<<"points", route.pointLayerId[1]>>} ELSE {}
      source == IF IsGiven(route.sourceId) THEN {route.sourceId[1]} ELSE {}
  IN  [st EXCEPT !.mapLayers = @ \ (line \cup points),
                 !.mapSources = @ \ source]

\* _removeRouteLayers(index)
removeRouteLayers(st, index) ==
  LET route == st.savedRoutes[index + 1]
      line == IF IsGiven(route.lineLayerId)
              THEN {<<"line", route.lineLayerId[1]>>} ELSE {}
      points == IF IsGiven(route.pointLayerId)
                THEN {<<"points", route.pointLayerId[1]>>} ELSE {}
      source == IF IsGiven(route.sourceId) THEN {route.sourceId[1]} ELSE {}
  IN  [st EXCEPT !.mapLayers = @ \ (line \cup points),
                 !.mapSources = @ \ source,
                 !.savedRoutes[index + 1].lineLayerId = None,
                 !.savedRoutes[index + 1].pointLayerId = None,
                 !.savedRoutes[index + 1].sourceId = None]

\* _addRouteLayers(index): map.addSource throws when the map has a source
\* of that id; map.addLayer leaves a layer of that id as it is.
addRouteLayers(st, index) ==
  LET s1 == removeRouteLayers(st, index)
  IN  IF index \in s1.mapSources
      THEN [s1 EXCEPT !.threw = TRUE]
      ELSE [s1 EXCEPT !.mapSources = @ \cup {index},
                      !.mapLayers = @ \cup {<<"line", index>>, <<"points", index>>},
                      !.savedRoutes[index + 1].sourceId = Some(index),
                      !.savedRoutes[index + 1].lineLayerId = Some(index),
                      !.savedRoutes[index + 1].pointLayerId = Some(index)]

\* _finalizeCurrentRoute()
finalizeCurrentRoute(st) ==
  IF HasActiveRoute(st)
  THEN LET a == st.activeRouteIndex + 1
       IN  addRouteLayers(
             [st EXCEPT !.savedRoutes[a].name = st.routeName,
                        !.savedRoutes[a].waypoints = st.waypoints,
                        !.savedRoutes[a].waypointNames = st.waypointNames,
                        !.savedRoutes[a].visible = TRUE,
                        !.savedRoutes[a].active = TRUE],
             st.activeRouteIndex)
  ELSE st

\* _syncActiveRouteToEditor() up to its loop: the markers are removed and the
\* active route is copied into the editor.
syncBegin(st) ==
  IF HasActiveRoute(st)
  THEN LET route == st.savedRoutes[st.activeRouteIndex + 1]
       IN  [st EXCEPT !.markers = << >>,
                      !.routeName = route.name,
                      !.waypoints = route.waypoints,
                      !.waypointNames = route.waypointNames]
  ELSE [st EXCEPT !.markers = << >>, !.routeName = EmptyName,
                  !.waypoints = << >>, !.waypointNames = << >>]

\* _syncActiveRouteToEditor() behind its loop: the markers beyond the
\* waypoints are removed.
syncEnd(st) ==
  IF Len(st.markers) > Len(st.waypoints)
  THEN [st EXCEPT !.markers = SubSeq(@, 1, Len(st.waypoints))]
  ELSE st

\* The route addWaypoint and New Route push, made the active one.
pushNewRoute(st) ==
  LET name == RouteNumber(Len(st.savedRoutes) + 1)
      routes == Append(st.savedRoutes,
                       SavedRoute(name, << >>, << >>, TRUE, TRUE))
  IN  [st EXCEPT !.routeName = name,
                 !.savedRoutes = MarkActive(routes, Len(routes) - 1),
                 !.activeRouteIndex = Len(routes) - 1]

\* addWaypoint(coord) behind the test for an active route.
appendWaypoint(st, coord) ==
  [st EXCEPT !.waypoints = Append(@, coord),
             !.waypointNames = Append(@, ""),
             !.markers = Append(@, Marker(coord))]

\* addWaypoint(coord): without an active route a new, empty route is pushed
\* and copied into the editor (its loop has nothing to go through).
addWaypoint(st, coord) ==
  IF HasActiveRoute(st) THEN appendWaypoint(st, coord)
  ELSE appendWaypoint(syncEnd(syncBegin(pushNewRoute(st))), coord)

\* The routes the GPX files under /routes/ hold.
GpxRoutes ==
  <<SavedRoute(GpxName(1), <<<<0, 51>>, <<1, 52>>>>, <<"Needles", "">>,
               FALSE, FALSE),
    SavedRoute(GpxName(2), <<<<1, 52>>>>, <<"">>, FALSE, FALSE)>>

\* startBtn.onclick (New Route)
startRoute ==
  /\ pc = "idle" /\ ~drawing
  /\ LET s0 == [Here EXCEPT !.drawing = TRUE]
         s1 == IF Len(s0.waypoints) > 0 THEN finalizeCurrentRoute(s0) ELSE s0
         s2 == [s1 EXCEPT !.waypoints = << >>, !.waypointNames = << >>,
                          !.markers = << >>]
         s3 == IF s1.threw THEN s1 ELSE syncEnd(syncBegin(pushNewRoute(s2)))
     IN  /\ Len(s3.savedRoutes) <= MaxRoutes
         /\ Becomes(s3)
  /\ UNCHANGED <<gpxFiles, pc, syncIt>>

\* stopBtn.onclick (End Route)
stopRoute ==
  /\ pc = "idle" /\ drawing
  /\ Becomes(finalizeCurrentRoute([Here EXCEPT !.drawing = FALSE]))
  /\ UNCHANGED <<gpxFiles, pc, syncIt>>

\* map.on("click"): a waypoint is added while drawing.
mapClick(coord) ==
  /\ pc = "idle" /\ drawing
  /\ Len(waypoints) < MaxWaypoints
  /\ HasActiveRoute(Here) \/ Len(savedRoutes) < MaxRoutes
  /\ Becomes(addWaypoint(Here, coord))
  /\ UNCHANGED <<gpxFiles, pc, syncIt>>

\* (px - vx)^2 + (py - vy)^2
SquaredLength(p, v) ==
  (p[1] - v[1]) * (p[1] - v[1]) + (p[2] - v[2]) * (p[2] - v[2])

\* _pointToSegmentDistance(p, v, w), squared and as a fraction: the distance
\* to v when the segment has no length or t is clamped to 0, to w when t is
\* clamped to 1, and else to the projection v + t (w - v), t = dot / l2.
pointToSegmentDistance(p, v, w) ==
  LET l2 == SquaredLength(w, v)
      dot == (p[1] - v[1]) * (w[1] - v[1]) + (p[2] - v[2]) * (w[2] - v[2])
  IN  IF l2 = 0 \/ dot <= 0 THEN [num |-> SquaredLength(p, v), den |-> 1]
      ELSE IF dot >= l2 THEN [num |-> SquaredLength(p, w), den |-> 1]
      ELSE [num |-> SquaredLength(p, v) * l2 - dot * dot, den |-> l2]

\* dist < minDist
Nearer(a, b) == a.num * b.den < b.num * a.den

\* The index the loop of _addWaypointAtNearestSegment leaves in
\* insertIndex: behind the first of the nearest segments.
RECURSIVE NearestSegment(_, _, _)
NearestSegment(wps, coord, n) ==
  IF n = 1 THEN 1
  ELSE LET best == NearestSegment(wps, coord, n - 1)
       IN  IF Nearer(pointToSegmentDistance(coord, wps[n], wps[n + 1]),
                     pointToSegmentDistance(coord, wps[best], wps[best + 1]))
           THEN n ELSE best

\* array.splice(idx, 0, x)
InsertBefore(list, idx, x) ==
  SubSeq(list, 1, idx) \o <<x>> \o SubSeq(list, idx + 1, Len(list))

\* _addWaypointAtNearestSegment that returns before it makes the marker.
addWaypointAtNearestSegment_noMarker(st, coord) ==
  IF Len(st.waypoints) < 2 THEN addWaypoint(st, coord)
  ELSE LET insertIndex ==
             NearestSegment(st.waypoints, coord, Len(st.waypoints) - 1)
       IN  [st EXCEPT !.waypoints = InsertBefore(@, insertIndex, coord),
                      !.waypointNames = InsertBefore(@, insertIndex, "")]

\* _addWaypointAtNearestSegment(coord)
addWaypointAtNearestSegment(st, coord) ==
  IF Len(st.waypoints) < 2 THEN addWaypoint(st, coord)
  ELSE LET insertIndex ==
             NearestSegment(st.waypoints, coord, Len(st.waypoints) - 1)
       IN  [st EXCEPT !.waypoints = InsertBefore(@, insertIndex, coord),
                      !.waypointNames = InsertBefore(@, insertIndex, ""),
                      !.markers = InsertBefore(@, insertIndex, Marker(coord))]

\* "Add Waypoint" of the context menu of the route line; the editor's
\* source has a line when there are two waypoints or more.
insertWaypoint(coord) ==
  /\ pc = "idle"
  /\ Len(waypoints) >= 2
  /\ Len(waypoints) < MaxWaypoints
  /\ Becomes(addWaypointAtNearestSegment(Here, coord))
  /\ UNCHANGED <<gpxFiles, pc, syncIt>>

\* _deleteWaypoint(idx)
deleteWaypoint(idx) ==
  /\ pc = "idle"
  /\ idx >= 0 /\ idx < Len(waypoints)
  /\ Becomes([Here EXCEPT !.waypoints = RemoveAt(@, idx),
                          !.waypointNames = RemoveAt(@, idx),
                          !.markers = RemoveAt(@, idx)])
  /\ UNCHANGED <<gpxFiles, pc, syncIt>>

\* _toggleRouteVisibility(index)
toggleRouteVisibility(index) ==
  /\ pc = "idle"
  /\ index >= 0 /\ index < Len(savedRoutes)
  /\ LET s0 == [Here EXCEPT !.savedRoutes[index + 1].visible = ~@]
     IN  Becomes(IF s0.savedRoutes[index + 1].visible
                 THEN addRouteLayers(s0, index)
                 ELSE removeRouteLayers(s0, index))
  /\ UNCHANGED <<gpxFiles, pc, syncIt>>

\* _loadPredefinedRoutes(): the next GPX file is fetched, parsed and pushed.
loadRoute ==
  /\ pc = "idle"
  /\ gpxFiles # << >>
  /\ Len(savedRoutes) < MaxRoutes
  /\ savedRoutes' = Append(savedRoutes, Head(gpxFiles))
  /\ gpxFiles' = Tail(gpxFiles)
  /\ uncaught' = None
  /\ UNCHANGED <<drawing, waypoints, waypointNames, markers, routeName,
                 activeRouteIndex, mapSources, mapLayers, pc, syncIt>>

\* _setActiveRoute(index) up to the loop of _syncActiveRouteToEditor.
setActiveRoute(index) ==
  /\ pc = "idle"
  /\ index >= 0 /\ index < Len(savedRoutes)
  /\ Becomes(syncBegin([Here EXCEPT
                          !.savedRoutes = MarkActive(@, index),
                          !.activeRouteIndex = index]))
  /\ pc' = "setActiveRoute"
  /\ syncIt' = 0
  /\ UNCHANGED gpxFiles

\* _deleteSavedRoute(index): when the deleted route was the active one and
\* routes are left, the handler goes on in the loop of
\* _syncActiveRouteToEditor.
deleteSavedRoute(index) ==
  /\ pc = "idle"
  /\ index >= 0 /\ index < Len(savedRoutes)
  /\ LET s0 == removeRouteLayers(Here, index)
         s1 == [s0 EXCEPT !.savedRoutes = RemoveAt(@, index)]
     IN  IF s1.activeRouteIndex = index
         THEN IF Len(s1.savedRoutes) > 0
              THEN /\ Becomes(syncBegin([s1 EXCEPT
                                !.activeRouteIndex = 0,
                                !.savedRoutes = MarkActive(@, 0)]))
                   /\ pc' = "deleteSavedRoute"
                   /\ syncIt' = 0
              ELSE /\ Becomes([s1 EXCEPT !.activeRouteIndex = -1,
                                         !.routeName = EmptyName,
                                         !.waypoints = << >>,
                                         !.waypointNames = << >>,
                                         !.markers = << >>])
                   /\ UNCHANGED <<pc, syncIt>>
         ELSE /\ Becomes(IF s1.activeRouteIndex > index
                         THEN [s1 EXCEPT !.activeRouteIndex = @ - 1]
                         ELSE s1)
              /\ UNCHANGED <<pc, syncIt>>
  /\ UNCHANGED gpxFiles

\* for (const coord of this.waypoints) this.addWaypoint(coord): one turn of
\* the loop.  The iterator reads the length of the list at every turn.
syncStep ==
  /\ pc # "idle"
  /\ syncIt < Len(waypoints)
  /\ Len(waypoints) < MaxWaypoints
  /\ Becomes(addWaypoint(Here, waypoints[syncIt + 1]))
  /\ syncIt' = syncIt + 1
  /\ UNCHANGED <<gpxFiles, pc>>

\* The loop has come to the end of the list: the rest of
\* _syncActiveRouteToEditor and of the handler.
syncExit ==
  /\ pc # "idle"
  /\ syncIt >= Len(waypoints)
  /\ Becomes(syncEnd(Here))
  /\ pc' = "idle"
  /\ UNCHANGED <<gpxFiles, syncIt>>

(***************************************************************************)
(* Specifications                                                          *)
(***************************************************************************)
\* The control after onAdd, before any event.
InitRouteControl ==
  /\ drawing = FALSE
  /\ waypoints = << >>
  /\ waypointNames = << >>
  /\ markers = << >>
  /\ routeName = RouteNumber(1)
  /\ savedRoutes = << >>
  /\ activeRouteIndex = -1
  /\ mapSources = {}
  /\ mapLayers = {}
  /\ gpxFiles = GpxRoutes
  /\ pc = "idle"
  /\ syncIt = 0
  /\ uncaught = None

\* No invocation of createStyle is in progress.
NoCompiles == [id \in 1..MaxCompiles |-> IdleFrame]

Init ==
  /\ symbols = Registry
  /\ ruleTable = LookupTable
  /\ console = << >>
  /\ calls = << >>
  /\ compiles = NoCompiles
  /\ InitRouteControl

Next ==
  \/ \E name \in SymbolNames, rot \in RotArgs : callSY(Reference(name), rot)
  \/ \E options \in AllStyleOptions : createStyle(options)

Spec == Init /\ [][Next]_vars

\* The assembler alone, over every rule table of at most MaxRules rules.
InitBuild ==
  /\ symbols = Registry
  /\ ruleTable \in RuleTables
  /\ console = << >>
  /\ calls = << >>
  /\ compiles = NoCompiles
  /\ InitRouteControl

NextBuild == \E m \in Mode : callBuild(LayerConfig(m))

SpecBuild == InitBuild /\ [][NextBuild]_vars

\* The style factory over the rule table with a defect.
InitBroken ==
  /\ symbols = Registry
  /\ ruleTable = BrokenTable
  /\ console = << >>
  /\ calls = << >>
  /\ compiles = NoCompiles
  /\ InitRouteControl

NextBroken == \E options \in AllStyleOptions : createStyle(options)

SpecBroken == InitBroken /\ [][NextBroken]_vars

\* The conditional procedure of soundings under the config of createStyle.
NextSounding ==
  \E depth \in Depths, m \in Mode : evaluate(depth, LayerConfig(m))

SpecSounding == Init /\ [][NextSounding]_vars

\* Invocations of createStyle side by side.
NextConcurrent ==
  \/ \E id \in 1..MaxCompiles, options \in ConcurrentOptions :
       beginCompile(id, options)
  \/ \E id \in 1..MaxCompiles : buildCompile(id)
  \/ \E id \in 1..MaxCompiles : finishCompile(id)

SpecConcurrent == Init /\ [][NextConcurrent]_vars

\* The route control.
NextRoute ==
  \/ startRoute /\ UNCHANGED <<compilerVars, compiles>>
  \/ stopRoute /\ UNCHANGED <<compilerVars, compiles>>
  \/ \E coord \in Coords : mapClick(coord) /\ UNCHANGED <<compilerVars, compiles>>
  \/ \E coord \in Coords :
       insertWaypoint(coord) /\ UNCHANGED <<compilerVars, compiles>>
  \/ \E idx \in 0..MaxWaypoints :
       deleteWaypoint(idx) /\ UNCHANGED <<compilerVars, compiles>>
  \/ \E index \in 0..MaxRoutes :
       toggleRouteVisibility(index) /\ UNCHANGED <<compilerVars, compiles>>
  \/ loadRoute /\ UNCHANGED <<compilerVars, compiles>>
  \/ \E index \in 0..MaxRoutes :
       setActiveRoute(index) /\ UNCHANGED <<compilerVars, compiles>>
  \/ \E index \in 0..MaxRoutes :
       deleteSavedRoute(index) /\ UNCHANGED <<compilerVars, compiles>>
  \/ syncStep /\ UNCHANGED <<compilerVars, compiles>>
  \/ syncExit /\ UNCHANGED <<compilerVars, compiles>>

SpecRoute == Init /\ [][NextRoute]_vars

TypeOK ==
  /\ Len(calls) <= MaxCalls
  /\ symbols = Registry

(***************************************************************************)
(* Properties                                                              *)
(***************************************************************************)
StyleCalls == {i \in 1..Len(calls) : calls[i].op = "createStyle"}
SYCalls == {i \in 1..Len(calls) : calls[i].op = "SY"}
BuildCalls == {i \in 1..Len(calls) : calls[i].op = "build"}

\* The mode in lower case, written out.
Lowercased(m) ==
  CASE m = DAY -> <<"d", "a", "y">>
    [] m = DUSK -> <<"d", "u", "s", "k">>
    [] m = NIGHT -> <<"n", "i", "g", "h", "t">>

\* The mode a call of createStyle works with.
ModeOf(c) == IF c.options.mode = None THEN DAY ELSE c.options.mode[1]

\* What follows the last "/" of a path (the whole path when it has none).
LastSegment(path) ==
  LET slashes == {i \in 1..Len(path) : path[i] = "/"}
      last == IF slashes = {} THEN 0
              ELSE CHOOSE i \in slashes : \A j \in slashes : j <= i
  IN  SubSeq(path, last + 1, Len(path))

\* C1 as stated: a sprite base URL that is given, whatever it is, is followed
\* by "/" and the lower-case mode; an omitted one gives the lower-case mode
\* alone; the last path segment is the lower-case mode.
C1_SpriteOfEveryBase ==
  \A i \in StyleCalls :
    LET c == calls[i]
        sprite == c.result.value.sprite
        lower == Lowercased(ModeOf(c))
    IN  c.result.type = "return" =>
          /\ IsGiven(c.options.sprite) =>
               sprite = c.options.sprite[1] \o SLASH \o lower
          /\ ~IsGiven(c.options.sprite) => sprite = lower
          /\ LastSegment(sprite) = lower

\* C1, amended: a sprite base URL that is given and not the empty string is
\* followed by "/" and the lower-case mode; an omitted or empty one gives
\* the lower-case mode alone; the last path segment of the sprite is always
\* the lower-case mode.
C1_SpriteOfNonEmptyBase ==
  \A i \in StyleCalls :
    LET c == calls[i]
        sprite == c.result.value.sprite
        lower == Lowercased(ModeOf(c))
        empty == ~IsGiven(c.options.sprite) \/ c.options.sprite = Some(<< >>)
    IN  c.result.type = "return" =>
          /\ ~empty => sprite = c.options.sprite[1] \o SLASH \o lower
          /\ empty => sprite = lower
          /\ LastSegment(sprite) = lower

C1_Witness ==
  \E i \in StyleCalls :
    /\ calls[i].options.mode = Some(NIGHT)
    /\ calls[i].options.sprite = Some(<<"S", "/", "x">>)
    /\ calls[i].result.type = "return"
    /\ calls[i].result.value.sprite =
         <<"S", "/", "x", "/", "n", "i", "g", "h", "t">>

\* C2 as stated: the source stored under the source id has promoteId LNAM,
\* also when the caller's source has a promoteId of its own, and every other
\* field of the caller's source is passed through.
C2_PromoteIdIsLNAM ==
  \A i \in StyleCalls :
    LET c == calls[i]
        given == c.options.source
        stored == c.result.value.sources["enc"]
    IN  c.result.type = "return" =>
          /\ DOMAIN stored = DOMAIN given \cup {"promoteId"}
          /\ stored["promoteId"] = "LNAM"
          /\ \A k \in DOMAIN given \ {"promoteId"} : stored[k] = given[k]

\* Whether the registry the program starts with has an entry for the symbol
\* of an SY call.
Registered(c) == c.symbol.name \in {"BOYLAT12", "ISODGR01"}

\* The entry of a registered symbol, written out.
EntryOffset(name) == IF name = "BOYLAT12" THEN <<0, 0>> ELSE <<-3, 4>>

\* C3: an SY call whose symbol has no registry entry returns the empty list
\* and does not throw; whatever calls came before it, missing symbols among
\* them, an SY call with a registered symbol returns its one fragment, and
\* the registry it reads is the one the program started with.
C3_MissingSymbolIsEmpty ==
  \A i \in SYCalls :
    LET c == calls[i]
    IN  /\ c.registry = Registry
        /\ ~Registered(c) => c.result = Return(<< >>)
        /\ Registered(c) =>
             /\ c.result.type = "return"
             /\ Len(c.result.value) = 1
             /\ c.result.value[1].layout["icon-image"] = c.symbol.name

C3_Witness ==
  \E i, j \in SYCalls :
    /\ i < j
    /\ ~Registered(calls[i])
    /\ calls[i].result = Return(<< >>)
    /\ Registered(calls[j])
    /\ Len(calls[j].result.value) = 1

\* The literal rotation of an SY call: 0 when the argument is omitted.
LiteralRotation(c) == IF c.rot = None THEN 0 ELSE c.rot[1].value
HasLiteralRotation(c) == c.rot = None \/ c.rot[1].type = "number"

\* C4: for a registered symbol and a literal rotation r (0 when omitted),
\* the layout has no icon-rotate exactly when r = 0, and otherwise has
\* icon-rotate = r, as passed.
C4_LiteralRotation ==
  \A i \in SYCalls :
    LET c == calls[i]
        r == LiteralRotation(c)
        layout == c.result.value[1].layout
    IN  (Registered(c) /\ HasLiteralRotation(c)) =>
          /\ c.result.type = "return"
          /\ ("icon-rotate" \notin DOMAIN layout) <=> (r = 0)
          /\ r # 0 => layout["icon-rotate"] = [type |-> "number", value |-> r]

C4_Witness ==
  \E i, j \in SYCalls :
    /\ Registered(calls[i]) /\ calls[i].rot = None
    /\ "icon-rotate" \notin DOMAIN calls[i].result.value[1].layout
    /\ Registered(calls[j]) /\ calls[j].rot = Some(Number(360))
    /\ calls[j].result.value[1].layout["icon-rotate"].value = 360

\* C5: for a registered symbol and a rotation given as an attribute
\* reference, the layout has icon-rotate = ["get", name] with the name of
\* that attribute.
C5_AttributeRotation ==
  \A i \in SYCalls :
    LET c == calls[i]
        layout == c.result.value[1].layout
    IN  (Registered(c) /\ ~HasLiteralRotation(c)) =>
          /\ c.result.type = "return"
          /\ "icon-rotate" \in DOMAIN layout
          /\ layout["icon-rotate"] =
               [type |-> "array", value |-> <<"get", c.rot[1].name>>]

C5_Witness ==
  \E i \in SYCalls :
    /\ Registered(calls[i])
    /\ calls[i].rot = Some(Reference("SECTR1"))
    /\ calls[i].result.value[1].layout["icon-rotate"].value = <<"get", "SECTR1">>

\* C6: for a registered symbol SY returns exactly one fragment, of type
\* symbol, with icon-image the symbol name and icon-offset the offset of the
\* symbol's registry entry.
C6_OneSymbolFragment ==
  \A i \in SYCalls :
    LET c == calls[i]
        frags == c.result.value
    IN  Registered(c) =>
          /\ c.result.type = "return"
          /\ Len(frags) = 1
          /\ frags[1].type = "symbol"
          /\ frags[1].layout["icon-image"] = c.symbol.name
          /\ frags[1].layout["icon-offset"] = EntryOffset(c.symbol.name)

C6_Witness ==
  \E i \in SYCalls :
    /\ calls[i].symbol.name = "ISODGR01"
    /\ calls[i].result.type = "return"
    /\ calls[i].result.value[1].layout["icon-image"] = "ISODGR01"
    /\ calls[i].result.value[1].layout["icon-offset"] = <<-3, 4>>

\* The rules of the table whose symbol the registry has: those SY gives a
\* fragment for.
FragmentRules == {n \in 1..Len(ruleTable) : ruleTable[n].symbol \in DOMAIN Registry}

\* C7: in the list build returns, a fragment of a rule of lower priority
\* comes before a fragment of a rule of higher priority, and fragments of
\* rules of equal priority come in the order of their rules in the table;
\* the list holds the fragment of every rule that gave one, once.
C7_StablePriorityOrder ==
  \A i \in BuildCalls :
    LET c == calls[i]
        s == c.sorted
    IN  /\ c.result.type = "return"
        /\ Len(c.result.value) = Len(s)
        /\ \A k \in 1..Len(s) :
             /\ s[k].rule \in FragmentRules
             /\ s[k].priority = ruleTable[s[k].rule].priority
             /\ c.result.value[k] = s[k].fragment
             /\ s[k].fragment.layout["icon-image"] = ruleTable[s[k].rule].symbol
        /\ \A n \in FragmentRules : \E k \in 1..Len(s) : s[k].rule = n
        /\ Len(s) = Cardinality(FragmentRules)
        /\ \A k, l \in 1..Len(s) :
             k < l =>
               \/ s[k].priority < s[l].priority
               \/ s[k].priority = s[l].priority /\ s[k].rule < s[l].rule

C7_Witness ==
  \E i \in BuildCalls :
    LET s == calls[i].sorted
    IN  /\ Len(ruleTable) = 3
        /\ ruleTable[1].priority = 5 /\ ruleTable[2].priority = 5
        /\ ruleTable[3].priority = 3
        /\ Len(s) = 3
        /\ s[1].rule = 3 /\ s[2].rule = 1 /\ s[3].rule = 2

\* C8: the layers of the document createStyle returns are the list build
\* returned: the same elements in the same order.
C8_LayersAreBuildResult ==
  \A i \in StyleCalls :
    LET c == calls[i]
    IN  /\ c.result.type = c.built.type
        /\ c.result.type = "return" => c.result.value.layers = c.built.value

C8_Witness ==
  \E i \in StyleCalls :
    /\ calls[i].built.type = "return"
    /\ Len(calls[i].built.value) = 4
    /\ calls[i].built.value[1] # calls[i].built.value[4]
    /\ calls[i].result.value.layers = calls[i].built.value

C10_FixedLayerConfig ==
  \A i \in StyleCalls :
    LET config == calls[i].config
    IN  /\ config.source = "enc"
        /\ config.shallowDepth = 3
        /\ config.safetyDepth = 6
        /\ config.deepDepth = 9
        /\ config.shallowDepth <= config.safetyDepth
        /\ config.safetyDepth <= config.deepDepth

C10_Witness ==
  \E i, j \in StyleCalls :
    /\ calls[i].options.mode = Some(NIGHT)
    /\ calls[j].options.mode = None
    /\ calls[i].options.source # calls[j].options.source
    /\ calls[i].config.deepDepth = 9
    /\ calls[j].config.deepDepth = 9

\* C11: with the mode omitted the config handed to build has mode DAY and
\* the sprite ends in "day"; with a mode given the config has that mode.
C11_ModeDefaultsToDay ==
  \A i \in StyleCalls :
    LET c == calls[i]
    IN  /\ c.options.mode = None =>
             /\ c.config.mode = DAY
             /\ c.result.type = "return"
             /\ LastSegment(c.result.value.sprite) = <<"d", "a", "y">>
        /\ c.options.mode # None => c.config.mode = c.options.mode[1]

C11_Witness ==
  \E i, j \in StyleCalls :
    /\ calls[i].options.mode = None
    /\ calls[i].config.mode = DAY
    /\ calls[j].options.mode = Some(DUSK)
    /\ calls[j].config.mode = DUSK

\* C12: the document has version 8, the fixed glyph URL template, the name
\* the caller gave (the default name when none was given) and a sources map
\* whose only key is "enc".
C12_DocumentFrame ==
  \A i \in StyleCalls :
    LET c == calls[i]
        doc == c.result.value
    IN  c.result.type = "return" =>
          /\ doc.version = 8
          /\ doc.glyphs = "https://fonts.openmaptiles.org/{fontstack}/{range}.pbf"
          /\ doc.name = IF c.options.name = None THEN "S52 Style"
                        ELSE c.options.name[1]
          /\ DOMAIN doc.sources = {"enc"}

C12_Witness ==
  \E i, j \in StyleCalls :
    /\ calls[i].options.name = Some("Harbour chart")
    /\ calls[i].result.value.name = "Harbour chart"
    /\ calls[j].options.name = None
    /\ calls[j].result.value.name = "S52 Style"

EvaluateCalls == {i \in 1..Len(calls) : calls[i].op = "evaluate"}

C15_SYIdempotent ==
  /\ symbols = Registry
  /\ \A i, j \in SYCalls :
       LET a == calls[i]
           b == calls[j]
       IN  /\ a.registry = b.registry
           /\ (a.symbol = b.symbol /\ a.rot = b.rot) =>
                /\ Len(a.result.value) = Len(b.result.value)
                /\ a.result = b.result

C15_Witness ==
  \E i, j \in SYCalls :
    /\ i < j
    /\ calls[i].symbol = Reference("NOSUCH01")
    /\ calls[j].symbol = Reference("NOSUCH01")
    /\ calls[i].rot = calls[j].rot
    /\ calls[j].result = Return(<< >>)
    /\ symbols = Registry

\* C17: when build ends in an error, createStyle ends in that error and
\* returns no document.
C17_ErrorSurfaces ==
  \A i \in StyleCalls :
    calls[i].built.type = "throw" =>
      /\ calls[i].result.type = "throw"
      /\ calls[i].result = calls[i].built

C17_Witness ==
  \E i \in StyleCalls :
    /\ calls[i].built.type = "throw"
    /\ calls[i].built.value.error = "ConfigurationError"
    /\ calls[i].result.type = "throw"

(***************************************************************************)
(* C16: when invocations of createStyle with different options are taken   *)
(* statement by statement in any order, each returns the document it       *)
(* returns when it runs alone, and the registry and the rule table the     *)
(* invocations share are left as they were.                                *)
(***************************************************************************)
Alone(options) ==
  LET config == LayerConfig(ModeOrDefault(options.mode))
  IN  Completion(options, config, build(config).completion)

ActiveRoute == savedRoutes[activeRouteIndex + 1]

(***************************************************************************)
(* C19: _syncActiveRouteToEditor terminates: every turn of its loop over   *)
(* the editor's waypoints leaves fewer turns to go.                        *)
(***************************************************************************)
C19_SyncLoopTerminates ==
  [][(pc # "idle" /\ pc' = pc /\ syncIt' = syncIt + 1) =>
       Len(waypoints') - syncIt' < Len(waypoints) - syncIt]_vars

(***************************************************************************)
(* C20: _setActiveRoute(i) leaves the editor a copy of route i: the        *)
(* editor's waypoints and names are those of the route, no duplicates      *)
(* added, routeName is the route's name, and at its end there is one       *)
(* marker for each waypoint.                                               *)
(***************************************************************************)
EditorIsCopy ==
  /\ waypoints = ActiveRoute.waypoints
  /\ waypointNames = ActiveRoute.waypointNames
  /\ routeName = ActiveRoute.name

C21_ParallelLists ==
  pc = "idle" =>
    /\ Len(waypointNames) = Len(waypoints)
    /\ Len(markers) = Len(waypoints)
    /\ \A k \in 1..Len(waypoints) : markers[k].lngLat = waypoints[k]

\* Three waypoints with their names and markers, the middle one at another
\* position than its neighbours.
C21_Witness ==
  /\ pc = "idle"
  /\ Len(waypoints) = 3
  /\ Len(markers) = 3
  /\ waypoints[2] # waypoints[1]
  /\ waypoints[1] = waypoints[3]

(***************************************************************************)
(* C22: activeRouteIndex is -1 or an index of savedRoutes, and a saved     *)
(* route has active = true exactly when its index is activeRouteIndex.     *)
(***************************************************************************)
C22_OneActiveRoute ==
  /\ activeRouteIndex = -1 \/ HasActiveRoute(Here)
  /\ \A i \in 1..Len(savedRoutes) :
       savedRoutes[i].active <=> (i - 1 = activeRouteIndex)

\* A route before the active one was deleted: the second route drawn is the
\* active one, at index 0.
C22_Witness ==
  /\ Len(savedRoutes) = 1
  /\ activeRouteIndex = 0
  /\ savedRoutes[1].active
  /\ savedRoutes[1].name = RouteNumber(2)

\* The route has its source and its two layers on the map.
HasLayers(route) ==
  /\ IsGiven(route.sourceId) /\ route.sourceId[1] \in mapSources
  /\ IsGiven(route.lineLayerId)
  /\ <<"line", route.lineLayerId[1]>> \in mapLayers
  /\ IsGiven(route.pointLayerId)
  /\ <<"points", route.pointLayerId[1]>> \in mapLayers

(***************************************************************************)
(* C23: a saved route is visible exactly when its source and layers are    *)
(* on the map and their ids are kept in the route.                         *)
(***************************************************************************)
C23_VisibleIffLayers ==
  \A i \in 1..Len(savedRoutes) :
    savedRoutes[i].visible <=> HasLayers(savedRoutes[i])

(***************************************************************************)
(* C23, as the code has it: a saved route that keeps a source id or a      *)
(* layer id is visible and has its source and both layers on the map; a    *)
(* visible route need not have them.                                       *)
(***************************************************************************)
C23_LayersImplyVisible ==
  \A i \in 1..Len(savedRoutes) :
    (\/ IsGiven(savedRoutes[i].sourceId)
     \/ IsGiven(savedRoutes[i].lineLayerId)
     \/ IsGiven(savedRoutes[i].pointLayerId)) =>
      savedRoutes[i].visible /\ HasLayers(savedRoutes[i])

\* A loaded route that is not visible and has nothing on the map, beside a
\* drawn route that is visible and has its source and layers.
C23_Witness ==
  /\ Len(savedRoutes) = 2
  /\ ~savedRoutes[1].visible /\ ~HasLayers(savedRoutes[1])
  /\ savedRoutes[1].name = GpxName(1)
  /\ mapSources = {1}
  /\ savedRoutes[2].visible /\ HasLayers(savedRoutes[2])

(***************************************************************************)
(* C24: no two saved routes hold the same source id or layer id, and no    *)
(* handler ends in the error of map.addSource for an id the map has.       *)
(***************************************************************************)
C24_DistinctLayerIds ==
  /\ \A i, j \in 1..Len(savedRoutes) :
       i # j =>
         /\ IsGiven(savedRoutes[i].sourceId) =>
              savedRoutes[i].sourceId # savedRoutes[j].sourceId
         /\ IsGiven(savedRoutes[i].lineLayerId) =>
              savedRoutes[i].lineLayerId # savedRoutes[j].lineLayerId
         /\ IsGiven(savedRoutes[i].pointLayerId) =>
              savedRoutes[i].pointLayerId # savedRoutes[j].pointLayerId
  /\ uncaught = None

\* The saved routes other than the active one are as they were.
OtherRoutesUnchanged ==
  /\ Len(savedRoutes') = Len(savedRoutes)
  /\ \A i \in 1..Len(savedRoutes) :
       i # activeRouteIndex + 1 => savedRoutes'[i] = savedRoutes[i]

(***************************************************************************)
(* C25: the End Route click with an active route leaves drawing false and  *)
(* the active saved route a copy of the editor (waypoints, names, name),   *)
(* visible and with its layers on the map, and every other saved route as  *)
(* it was; an edit of the editor's waypoints that is not a finalize leaves *)
(* the waypoints of the saved routes as they were.                         *)
(***************************************************************************)
C25_EndRouteSavesEditor ==
  [][/\ (drawing /\ ~drawing' /\ HasActiveRoute(Here)) =>
          /\ activeRouteIndex' = activeRouteIndex
          /\ ActiveRoute'.waypoints = waypoints
          /\ ActiveRoute'.waypointNames = waypointNames
          /\ ActiveRoute'.name = routeName
          /\ ActiveRoute'.visible
          /\ HasLayers(ActiveRoute)'
          /\ OtherRoutesUnchanged
     /\ (/\ drawing' = drawing
         /\ waypoints' # waypoints
         /\ Len(savedRoutes') = Len(savedRoutes)) =>
          \A i \in 1..Len(savedRoutes) :
            savedRoutes'[i].waypoints = savedRoutes[i].waypoints]_vars

\* The positions in a list of waypoints.
Positions(wps) == {wps[k] : k \in 1..Len(wps)}

(***************************************************************************)
(* C26: a waypoint added while drawing and not deleted by the user is in   *)
(* the active saved route after the next End Route click: selecting a      *)
(* route while drawing keeps the editor's waypoints in the editor, and     *)
(* End Route puts the editor's waypoints into the active saved route.      *)
(***************************************************************************)
C26_ClickedWaypointsAreSaved ==
  [][/\ (drawing /\ pc = "idle" /\ pc' = "setActiveRoute") =>
          Positions(waypoints) \subseteq Positions(waypoints')
     /\ (drawing /\ ~drawing' /\ HasActiveRoute(Here)) =>
          Positions(waypoints) \subseteq Positions(ActiveRoute'.waypoints)]_vars

(***************************************************************************)
(* C27: a click on New Route with k saved routes saves a non-empty editor  *)
(* into the active route, appends one route without waypoints at index k,  *)
(* makes it the only active route, empties the editor's waypoints, names   *)
(* and markers, sets drawing, and leaves the waypoints of the other saved  *)
(* routes as they were.                                                    *)
(***************************************************************************)
C27_NewRoute ==
  [][(~drawing /\ drawing') =>
       LET k == Len(savedRoutes)
       IN  /\ Len(savedRoutes') = k + 1
           /\ savedRoutes'[k + 1].waypoints = << >>
           /\ activeRouteIndex' = k
           /\ \A i \in 1..(k + 1) : savedRoutes'[i].active <=> (i = k + 1)
           /\ waypoints' = << >>
           /\ waypointNames' = << >>
           /\ markers' = << >>
           /\ \A i \in 1..k :
                savedRoutes'[i].waypoints =
                  IF i = activeRouteIndex + 1 /\ Len(waypoints) > 0
                  THEN waypoints ELSE savedRoutes[i].waypoints]_vars

\* A saved route was deleted in this step.
RouteDeleted == Len(savedRoutes') = Len(savedRoutes) - 1

\* The route deleted in this step was not the active one: the handler has
\* ended, and an active route there was is still there.
OtherRouteDeleted ==
  /\ RouteDeleted
  /\ pc' = "idle"
  /\ activeRouteIndex = -1 \/ activeRouteIndex' >= 0

C29_DeleteActiveRoute ==
  [][/\ (RouteDeleted /\ ~OtherRouteDeleted) =>
          /\ LET deleted == savedRoutes[activeRouteIndex + 1]
             IN  /\ IsGiven(deleted.sourceId) =>
                      deleted.sourceId[1] \notin mapSources'
                 /\ IsGiven(deleted.lineLayerId) =>
                      <<"line", deleted.lineLayerId[1]>> \notin mapLayers'
                 /\ IsGiven(deleted.pointLayerId) =>
                      <<"points", deleted.pointLayerId[1]>> \notin mapLayers'
          /\ IF Len(savedRoutes') > 0
             THEN /\ activeRouteIndex' = 0
                  /\ savedRoutes'[1].active
                  /\ EditorIsCopy'
             ELSE /\ activeRouteIndex' = -1
                  /\ waypoints' = << >>
                  /\ waypointNames' = << >>
                  /\ markers' = << >>
     /\ (pc = "deleteSavedRoute") =>
          /\ EditorIsCopy'
          /\ pc' = "idle" => Len(markers') = Len(waypoints')]_vars
====
